---- MODULE Spec2Model ----
(***************************************************************************)
(* The admin-modules gateway of src/src/pages/DivisionDetail.tsx           *)
(* (lines 643-890): verifyAdminToken and the serve handler, run by         *)
(* several requests at once against the shared tables admins, programs    *)
(* and program_modules.  A request advances one storage round trip at a   *)
(* time; everything between two awaits on storage is one atomic step.     *)
(***************************************************************************)
EXTENDS Integers, Sequences, FiniteSets, TLC

(* ---------------------------- bounds ---------------------------------- *)
\* number of request slots (requests that arrive during one behaviour)
MaxRequests == 2
\* the clock Date.now() runs over 1..MaxTime
MaxTime == 2
\* rows program_modules may ever hold (ids 1..MaxModules are handed out)
MaxModules == 2
\* changes other actors make to admins / programs during one behaviour
MaxEnvChanges == 1
\* toggles of the ModuleManager awaiting their answer at one time
MaxInFlight == 2

Slots == 1..MaxRequests
Times == 1..MaxTime
ModuleIds == 1..MaxModules

(* ---------------------------- domains --------------------------------- *)
Divisions == {"farmelife", "organelife"}
AdminIds == {"a1", "a2"}
\* p3 is an id no row of programs carries
ProgramIds == {"p1", "p2", "p3"}
StoredPrograms == {"p1", "p2"}
\* two of the three module types of MODULE_TYPES
ModuleTypes == {"announcement", "registration"}

\* the value of a missing field / missing row / null
Null == [kind |-> "null"]
\* the marker of a thrown exception
Throw == [kind |-> "throw"]

\* SUPABASE_SERVICE_ROLE_KEY, and a key an outsider might guess instead
ServiceKey == "service-role-key"
GuessedKey == "guessed-key"

(* ---------------------------- tokens ---------------------------------- *)
\* The texts a payload segment may decode to: the JSON of an
\* AdminTokenPayload, the JSON text "null", or text that is no JSON.
ObjText(a, d, e) ==
    [kind |-> "obj", admin_id |-> a, user_id |-> "u", division_id |-> d, exp |-> e]
NullText == [kind |-> "nulltext"]
JunkText == [kind |-> "junk"]
PayloadTexts == {ObjText(a, d, e) : a \in AdminIds, d \in Divisions, e \in Times}

\* A segment of the token (what token.split(".") yields).  A base64 segment
\* names the text it decodes to and which spelling of it is used: spelling 0
\* is the one btoa produces, spelling 1 another string atob decodes to the
\* same text (unused trailing bits set, or white space).
B64(t, sp) == [kind |-> "b64", text |-> t, sp |-> sp]
\* hex(SHA-256(text + key)): distinct inputs give distinct digests
HexDigest(t, k) == [kind |-> "hex", text |-> t, key |-> k]
EmptySeg == [kind |-> "empty"]
\* a segment with a character outside the base64 alphabet
BadSeg == [kind |-> "bad"]

\* the header is absent
NoToken == <<>>

\* atob(payloadBase64), line 663
atob(seg) ==
    CASE seg.kind = "b64" -> seg.text
      [] seg.kind = "hex" -> JunkText
      [] OTHER -> Throw

\* JSON.parse(tokenData), line 664
JSONparse(text) ==
    CASE text.kind = "obj" ->
            [kind |-> "payload", admin_id |-> text.admin_id, user_id |-> text.user_id,
             division_id |-> text.division_id, exp |-> text.exp]
      [] text.kind = "nulltext" -> Null
      [] OTHER -> Throw

\* JavaScript's !x for a destructured segment: undefined or ""
Falsy(seg) == seg = Null \/ seg = EmptySeg

\* const [payloadBase64, signature] = token.split("."), line 660
SegmentAt(token, i) == IF Len(token) >= i THEN token[i] ELSE Null

\* payload.exp < Date.now(), line 667
Expired(exp, now) == exp < now

SignatureOkMutant(signature, tokenData, serviceKey) == TRUE
\* signature === expectedSignature, lines 673-679
SignatureOk(signature, tokenData, serviceKey) ==
    signature = HexDigest(tokenData, serviceKey)

\* verifyAdminToken, lines 658-689: the payload, or Null
verifyAdminToken(token, serviceKey, now) ==
    LET payloadBase64 == SegmentAt(token, 1)
        signature == SegmentAt(token, 2)
    IN  IF Falsy(payloadBase64) \/ Falsy(signature) THEN Null
        ELSE LET tokenData == atob(payloadBase64)
             IN  IF tokenData = Throw THEN Null
                 ELSE LET payload == JSONparse(tokenData)
                      IN  IF payload = Throw THEN Null
                          ELSE IF payload = Null THEN Null
                          ELSE IF Expired(payload.exp, now) THEN Null
                          ELSE IF ~SignatureOk(signature, tokenData, serviceKey) THEN Null
                          ELSE payload


\* verifyAdminToken up to its first await, lines 660-670: TRUE when the
\* segments are there, the payload decodes and parses and the expiry test at
\* the given time passed, so that crypto.subtle.digest (line 675) is awaited
ReachesDigest(token, now) ==
    LET payloadBase64 == SegmentAt(token, 1)
        signature == SegmentAt(token, 2)
    IN  IF Falsy(payloadBase64) \/ Falsy(signature) THEN FALSE
        ELSE LET tokenData == atob(payloadBase64)
             IN  IF tokenData = Throw THEN FALSE
                 ELSE LET payload == JSONparse(tokenData)
                      IN  IF payload = Throw THEN FALSE
                          ELSE IF payload = Null THEN FALSE
                          ELSE ~Expired(payload.exp, now)

\* a line of the server log: the message and what is printed after it
LogEntry(msg, arg) == [msg |-> msg, arg |-> arg]

\* what verifyAdminToken writes to the log, lines 668, 680 and 686
verifyAdminTokenLog(token, serviceKey, now) ==
    LET payloadBase64 == SegmentAt(token, 1)
        signature == SegmentAt(token, 2)
        thrown == <<LogEntry("Token verification error:", [message |-> "exception"])>>
    IN  IF Falsy(payloadBase64) \/ Falsy(signature) THEN <<>>
        ELSE LET tokenData == atob(payloadBase64)
             IN  IF tokenData = Throw THEN thrown
                 ELSE LET payload == JSONparse(tokenData)
                      IN  IF payload = Throw THEN thrown
                          ELSE IF payload = Null THEN thrown
                          ELSE IF Expired(payload.exp, now)
                          THEN <<LogEntry("Token expired", Null)>>
                          ELSE IF ~SignatureOk(signature, tokenData, serviceKey)
                          THEN <<LogEntry("Invalid signature", Null)>>
                          ELSE <<>>

\* a correctly signed token for text t, as the issuer makes it
Issued(t) == <<B64(t, 0), HexDigest(t, ServiceKey)>>

\* texts that differ from t in exactly one field
OneFieldOff(t) ==
    {u \in PayloadTexts :
        Cardinality({f \in {"admin_id", "division_id", "exp"} : u[f] # t[f]}) = 1}

\* The tokens a caller may present: issued ones, and what can be made of
\* them without the service key.
TokenPool ==
    {Issued(t) : t \in PayloadTexts}
    \cup {<<B64(t, 1), HexDigest(t, ServiceKey)>> : t \in PayloadTexts}
    \cup {Issued(t) \o <<BadSeg>> : t \in PayloadTexts}
    \cup UNION {{<<B64(u, 0), HexDigest(t, ServiceKey)>> : u \in OneFieldOff(t)} :
                  t \in PayloadTexts}
    \cup {<<B64(t, 0), HexDigest(t, GuessedKey)>> : t \in PayloadTexts}
    \cup {<<B64(t, 0)>> : t \in PayloadTexts}
    \cup {<<B64(t, 0), EmptySeg>> : t \in PayloadTexts}
    \cup {<<EmptySeg, HexDigest(t, ServiceKey)>> : t \in PayloadTexts}
    \cup {<<BadSeg, HexDigest(t, ServiceKey)>> : t \in PayloadTexts}
    \cup {<<B64(NullText, 0), HexDigest(NullText, GuessedKey)>>,
          <<B64(JunkText, 0), HexDigest(JunkText, GuessedKey)>>,
          <<EmptySeg>>, NoToken}

(* ---------------------------- requests -------------------------------- *)
\* the values of an optional boolean field of the JSON body
OptBool == {"undefined", "true", "false"}

CreateData == [program_id : ProgramIds, module_type : ModuleTypes, is_published : OptBool]
UpdateData == [id : ModuleIds, is_published : OptBool]
DeleteData == [id : ModuleIds]
\* update payloads that carry fields the handler does not read
UpdateDataExtra ==
    [id : ModuleIds, is_published : {"undefined", "true"},
     module_type : {"registration"}, program_id : {"p2"}]

\* what req.json() may yield: Throw stands for a body that is no JSON object
Bodies ==
    {[action |-> "create", data |-> d] : d \in CreateData}
    \cup {[action |-> "update", data |-> d] : d \in UpdateData \cup UpdateDataExtra}
    \cup {[action |-> "delete", data |-> d] : d \in DeleteData}
    \cup {[action |-> a, data |-> Null] : a \in {"create", "update", "delete", "archive"}}
    \cup {Throw}

\* the message of a storage error
StorageMsg == "storage error"

Response(status, error, success, module) ==
    [status |-> status, error |-> error, success |-> success, module |-> module]

NoEffect == [kind |-> "none", before |-> Null, after |-> Null, at |-> Null]

IdleRequest ==
    [pc |-> "idle", method |-> "none", token |-> NoToken, verifiedAt |-> 0,
     adminPayload |-> Null, admin |-> Null, body |-> Null, existingModule |-> Null,
     program |-> Null, failed |-> "none", calls |-> <<>>, response |-> Null,
     effect |-> NoEffect, log |-> <<>>]

VARIABLES now, admins, programs, modules, nextId, envChanges, req

MODULE_TYPES == {"announcement", "registration", "advertisement"}
\* the modules prop of the first render: one unpublished announcement module
InitialListed ==
    [t \in MODULE_TYPES |->
        IF t = "announcement" THEN [id |-> "m1", is_published |-> FALSE] ELSE Null]

\* ModuleManager: the isUpdating state (line 478), the calls of
\* callAdminModulesApi not yet settled, the modules prop as the component
\* reads it (listed[type] is the first row of the type, or Null), and the calls of onModulesChange the parent has not yet answered
\* with a new modules prop
VARIABLES isUpdating, inFlight, listed, refetches
ui == <<isUpdating, inFlight, listed, refetches>>

vars == <<now, admins, programs, modules, nextId, envChanges, req,
          isUpdating, inFlight, listed, refetches>>

\* the row of program_modules with the given id, or Null
ModuleRow(mods, id) ==
    IF \E m \in mods : m.id = id THEN CHOOSE m \in mods : m.id = id ELSE Null

InitialModules ==
    {{}} \cup {{[id |-> 1, program_id |-> p, module_type |-> "announcement",
                 is_published |-> FALSE]} : p \in StoredPrograms}

Init ==
    /\ now = 1
    /\ \E act \in BOOLEAN :
          admins = [a \in AdminIds |->
                      IF a = "a1"
                      THEN [present |-> TRUE, id |-> a, is_active |-> act,
                            division_id |-> "farmelife"]
                      ELSE [present |-> FALSE, id |-> a, is_active |-> FALSE,
                            division_id |-> "organelife"]]
    /\ programs = [p \in StoredPrograms |->
                      [division_id |-> IF p = "p1" THEN "farmelife" ELSE "organelife"]]
    /\ modules \in InitialModules
    /\ nextId = Cardinality(modules) + 1
    /\ envChanges = 0
    /\ req = [r \in Slots |-> IdleRequest]
    /\ isUpdating = Null
    /\ inFlight = <<>>
    /\ listed = InitialListed
    /\ refetches = 0

Finish(r, fields, resp) ==
    req' = [req EXCEPT ![r] = [fields EXCEPT !.pc = "done", !.response = resp]]


(* ---------------------------- the handler ----------------------------- *)
ErrTokenRequired == "Admin token required"
ErrInvalidToken == "Invalid or expired token"
ErrAdmin == "Admin account not found or inactive"
ErrDivision == "You can only manage modules for programs in your division"
ErrModuleNotFound == "Module not found"
ErrInvalidAction == "Invalid action"
ErrInternal == "Internal server error"

\* !adminToken, line 704: the header is absent or the empty string
TokenMissing(token) == token = NoToken \/ token = <<EmptySeg>>

\* Requests take the slots in order: slot r is used once every lower slot is.
NextSlot(r) ==
    /\ req[r].pc = "idle"
    /\ \A q \in Slots : q < r => req[q].pc # "idle"

\* lines 692-694: the pre-flight answer, before anything is read
ReceiveOptions(r) ==
    /\ NextSlot(r)
    /\ Finish(r, [req[r] EXCEPT !.method = "OPTIONS"], Response(200, "", FALSE, Null))
    /\ UNCHANGED <<now, admins, programs, modules, nextId, envChanges>>
    /\ UNCHANGED ui

\* lines 696-718 with verifyAdminToken up to its await (lines 660-675): read
\* the header, decode the payload and test the expiry at the current time;
\* pool is the set of tokens callers may present
ReceivePost(r, pool) ==
    /\ NextSlot(r)
    /\ \E token \in pool :
          LET got == [req[r] EXCEPT !.method = "POST", !.token = token]
          IN  IF TokenMissing(token)
              THEN Finish(r, got, Response(401, ErrTokenRequired, FALSE, Null))
              ELSE IF ~ReachesDigest(token, now)
              THEN Finish(r, [got EXCEPT !.verifiedAt = now,
                                         !.log = verifyAdminTokenLog(token, ServiceKey, now)],
                          Response(401, ErrInvalidToken, FALSE, Null))
              ELSE req' = [req EXCEPT ![r] =
                             [got EXCEPT !.verifiedAt = now, !.pc = "digest"]]
    /\ UNCHANGED <<now, admins, programs, modules, nextId, envChanges>>
    /\ UNCHANGED ui

\* lines 675-684 and 712-718: the digest arrives and is compared with the
\* signature; the expiry was tested when the request was received
Digest(r) ==
    /\ req[r].pc = "digest"
    /\ LET adminPayload == verifyAdminToken(req[r].token, ServiceKey, req[r].verifiedAt)
           got == [req[r] EXCEPT !.log = verifyAdminTokenLog(req[r].token, ServiceKey,
                                                             req[r].verifiedAt)]
       IN  IF adminPayload = Null
           THEN Finish(r, got, Response(401, ErrInvalidToken, FALSE, Null))
           ELSE req' = [req EXCEPT ![r] =
                          [got EXCEPT !.adminPayload = adminPayload, !.pc = "adminLookup"]]
    /\ UNCHANGED <<now, admins, programs, modules, nextId, envChanges>>
    /\ UNCHANGED ui

AdminRejectedMutant(adminError, admin) == adminError \/ admin = Null
\* adminError || !admin || !admin.is_active, line 727
AdminRejected(adminError, admin) ==
    adminError \/ admin = Null \/ ~admin.is_active

KnownActions == {"create", "update", "delete"}

\* console.error("Error in admin-modules:", error), line 884
CaughtLog == LogEntry("Error in admin-modules:", [message |-> "exception"])

\* the console.log that opens each case, lines 753, 787, 835
CaseLog(body) ==
    IF body.action = "create"
    THEN LogEntry("Creating module for program:", [program_id |-> body.data.program_id])
    ELSE IF body.action = "update"
    THEN LogEntry("Updating module:", [id |-> body.data.id])
    ELSE LogEntry("Deleting module:", [id |-> body.data.id])

\* console.error of a failed mutation, lines 773, 821, 864
MutationLog(action, message) ==
    LogEntry(IF action = "create" THEN "Insert error:"
             ELSE IF action = "update" THEN "Update error:" ELSE "Delete error:",
             [message |-> message])

\* lines 734-751 and the first statement of the chosen case: what req.json()
\* gave, the destructuring, the switch and console.log(data.program_id / data.id)
Dispatch(r, got, body) ==
    IF body = Throw
    THEN Finish(r, [got EXCEPT !.log = Append(@, CaughtLog)],
                Response(500, ErrInternal, FALSE, Null))
    ELSE IF body.action \notin KnownActions
    THEN Finish(r, [got EXCEPT !.body = body], Response(400, ErrInvalidAction, FALSE, Null))
    ELSE IF body.data = Null
    THEN Finish(r, [got EXCEPT !.body = body, !.log = Append(@, CaughtLog)],
                Response(500, ErrInternal, FALSE, Null))
    ELSE req' = [req EXCEPT ![r] =
                   [got EXCEPT !.body = body,
                               !.log = Append(@, CaseLog(body)),
                               !.pc = IF body.action = "create" THEN "access" ELSE "fetch"]]

\* lines 720-732: the admin lookup; then req.json() is awaited
AdminLookup(r) ==
    /\ req[r].pc = "adminLookup"
    /\ \E fail \in BOOLEAN :
          LET row == admins[req[r].adminPayload.admin_id]
              adminError == fail \/ ~row.present
              admin == IF adminError THEN Null
                       ELSE [id |-> row.id, is_active |-> row.is_active,
                             division_id |-> row.division_id]
          IN  IF AdminRejected(adminError, admin)
              THEN Finish(r, [req[r] EXCEPT !.admin = admin,
                                            !.calls = Append(@, "admins.select"),
                                            !.failed = IF fail THEN "admins" ELSE "none"],
                          Response(401, ErrAdmin, FALSE, Null))
              ELSE req' = [req EXCEPT ![r] =
                             [req[r] EXCEPT !.admin = admin,
                                            !.calls = Append(@, "admins.select"),
                                            !.pc = "body"]]
    /\ UNCHANGED <<now, admins, programs, modules, nextId, envChanges>>
    /\ UNCHANGED ui

\* line 734: req.json() settles, with the body or with an exception
ReadBody(r) ==
    /\ req[r].pc = "body"
    /\ \E body \in Bodies : Dispatch(r, req[r], body)
    /\ UNCHANGED <<now, admins, programs, modules, nextId, envChanges>>
    /\ UNCHANGED ui

\* fetchError || !existingModule, lines 796 and 844
ModuleMissing(fetchError, existingModule) == fetchError \/ existingModule = Null

FetchFailureMutant(fetchError, existingModule) ==
    IF fetchError THEN Response(500, ErrInternal, FALSE, Null)
    ELSE Response(404, ErrModuleNotFound, FALSE, Null)
\* the answer of lines 797-800 and 845-848
FetchFailure(fetchError, existingModule) ==
    Response(404, ErrModuleNotFound, FALSE, Null)

\* lines 790-801 and 838-849: the module lookup of update and delete
Fetch(r) ==
    /\ req[r].pc = "fetch"
    /\ \E fail \in BOOLEAN :
          LET row == ModuleRow(modules, req[r].body.data.id)
              fetchError == fail \/ row = Null
              existingModule == IF fetchError THEN Null ELSE [program_id |-> row.program_id]
              got == [req[r] EXCEPT !.calls = Append(@, "program_modules.select"),
                                    !.failed = IF fail THEN "program_modules" ELSE "none"]
          IN  IF ModuleMissing(fetchError, existingModule)
              THEN Finish(r, got, FetchFailure(fetchError, existingModule))
              ELSE req' = [req EXCEPT ![r] =
                             [got EXCEPT !.existingModule = existingModule, !.pc = "access"]]
    /\ UNCHANGED <<now, admins, programs, modules, nextId, envChanges>>
    /\ UNCHANGED ui

DivisionIdMutant(admin, adminPayload) == adminPayload.division_id
\* const divisionId = admin.division_id, line 737
DivisionId(admin, adminPayload) == admin.division_id

\* the row of programs with the given id as .single() returns it, or Null
ProgramRow(progs, programId) ==
    IF programId \in DOMAIN progs THEN progs[programId] ELSE Null

ProgramAllowedMutant(error, program, divisionId) == ~error /\ program # Null
ProgramAllowedLax(error, program, divisionId) ==
    IF error \/ program = Null THEN TRUE ELSE program.division_id = divisionId
\* lines 747-748: if (error || !program) return false; else compare
ProgramAllowed(error, program, divisionId) ==
    IF error \/ program = Null THEN FALSE ELSE program.division_id = divisionId

\* the program id the case hands to verifyProgramAccess, lines 755, 803, 851
AccessProgramId(q) ==
    IF q.body.action = "create" THEN q.body.data.program_id
    ELSE q.existingModule.program_id

AccessRetry(r) ==
    /\ req[r].pc = "access"
    /\ \E fail \in BOOLEAN :
          LET row == ProgramRow(programs, AccessProgramId(req[r]))
              error == fail \/ row = Null
              program == IF error THEN Null ELSE row
              got == [req[r] EXCEPT !.program = program,
                                    !.calls = Append(@, "programs.select"),
                                    !.failed = IF fail THEN "programs" ELSE "none"]
          IN  IF fail /\ Len(req[r].calls) < 4
              THEN req' = [req EXCEPT ![r] = got]
              ELSE IF ~ProgramAllowed(error, program, DivisionId(req[r].admin, req[r].adminPayload))
              THEN Finish(r, got, Response(403, ErrDivision, FALSE, Null))
              ELSE req' = [req EXCEPT ![r] = [got EXCEPT !.pc = "mutate"]]
    /\ UNCHANGED <<now, admins, programs, modules, nextId, envChanges>>
    /\ UNCHANGED ui
\* verifyProgramAccess, lines 740-749, and the 403 of lines 755-760,
\* 803-808, 851-856
Access(r) ==
    /\ req[r].pc = "access"
    /\ \E fail \in BOOLEAN :
          LET row == ProgramRow(programs, AccessProgramId(req[r]))
              error == fail \/ row = Null
              program == IF error THEN Null ELSE row
              got == [req[r] EXCEPT !.program = program,
                                    !.calls = Append(@, "programs.select"),
                                    !.failed = IF fail THEN "programs" ELSE "none"]
          IN  IF ~ProgramAllowed(error, program, DivisionId(req[r].admin, req[r].adminPayload))
              THEN Finish(r, got, Response(403, ErrDivision, FALSE, Null))
              ELSE req' = [req EXCEPT ![r] = [got EXCEPT !.pc = "mutate"]]
    /\ UNCHANGED <<now, admins, programs, modules, nextId, envChanges>>
    /\ UNCHANGED ui


\* what the tables hold for the request's admin and program at the moment
\* its insert / update / delete statement runs (lines 762, 813, 858)
CommitTime(q) ==
    [is_active |-> admins[q.admin.id].is_active,
     program |-> ProgramRow(programs, AccessProgramId(q))]

\* the answer to a failed insert / update / delete: the storage message,
\* lines 772-778, 820-826, 863-869
MutationFailure(message) == Response(400, message, FALSE, Null)

\* the message of .single() when the statement returned no row
NoRowsMsg == "JSON object requested, multiple (or no) rows returned"

InsertPublishedMutant(opt) == opt # "false"
\* data.is_published || false, line 767
InsertPublished(opt) == opt = "true"

\* the row the insert of lines 762-770 makes; the id is the backend's
NewRow(id, data) ==
    [id |-> id, program_id |-> data.program_id, module_type |-> data.module_type,
     is_published |-> InsertPublished(data.is_published)]

InsertedUpsert(mods, row) ==
    {m \in mods : m.program_id # row.program_id \/ m.module_type # row.module_type}
        \cup {row}
\* program_modules after .insert(row), lines 762-770: a plain insert, no
\* lookup before it and no conflict target
Inserted(mods, row) == mods \cup {row}

\* lines 762-783: insert, then 400 with the storage message or 200 with the row
Insert(r) ==
    /\ req[r].pc = "mutate"
    /\ req[r].body.action = "create"
    /\ \/ /\ Finish(r, [req[r] EXCEPT !.failed = "program_modules",
                                      !.calls = Append(@, "program_modules.insert"),
                                      !.log = Append(@, MutationLog("create", StorageMsg))],
                    MutationFailure(StorageMsg))
          /\ UNCHANGED <<modules, nextId>>
       \/ /\ nextId <= MaxModules
          /\ LET row == NewRow(nextId, req[r].body.data)
             IN  /\ modules' = Inserted(modules, row)
                 /\ nextId' = nextId + 1
                 /\ Finish(r, [req[r] EXCEPT !.calls = Append(@, "program_modules.insert"),
                                  !.effect =
                                  [kind |-> "insert", before |-> Null, after |-> row,
                                   at |-> CommitTime(req[r])]],
                           Response(200, "", TRUE, row))
    /\ UNCHANGED <<now, admins, programs, envChanges>>
    /\ UNCHANGED ui

UpdatedRowMutant(row, data) ==
    IF data.is_published # "undefined"
    THEN [row EXCEPT !.is_published = ~row.is_published]
    ELSE row
UpdatedRowSpread(row, data) ==
    [f \in DOMAIN row |->
        IF f = "is_published"
        THEN IF data.is_published # "undefined" THEN data.is_published = "true"
             ELSE row.is_published
        ELSE IF f \in DOMAIN data /\ f # "id" THEN data[f] ELSE row[f]]
\* lines 810-811 applied to the row: only a present is_published is written
UpdatedRow(row, data) ==
    IF data.is_published # "undefined"
    THEN [row EXCEPT !.is_published = (data.is_published = "true")]
    ELSE row

\* lines 810-831: update ... eq(id).select().single()
Update(r) ==
    /\ req[r].pc = "mutate"
    /\ req[r].body.action = "update"
    /\ LET data == req[r].body.data
           row == ModuleRow(modules, data.id)
           got == [req[r] EXCEPT !.calls = Append(@, "program_modules.update")]
           norow == [got EXCEPT !.failed = "single",
                                !.log = Append(@, MutationLog("update", NoRowsMsg))]
       IN  \/ /\ Finish(r, [got EXCEPT !.failed = "program_modules",
                                     !.log = Append(@, MutationLog("update", StorageMsg))],
                        MutationFailure(StorageMsg))
              /\ UNCHANGED modules
           \/ /\ row = Null
              /\ Finish(r, norow, MutationFailure(NoRowsMsg))
              /\ UNCHANGED modules
           \* an empty updateData: the source does not say whether the backend
           \* returns the row or none; either way nothing is written
           \/ /\ row # Null
              /\ data.is_published = "undefined"
              /\ \/ Finish(r, got, Response(200, "", TRUE, row))
                 \/ Finish(r, norow, MutationFailure(NoRowsMsg))
              /\ UNCHANGED modules
           \/ /\ row # Null
              /\ data.is_published # "undefined"
              /\ LET new == UpdatedRow(row, data)
                 IN  /\ modules' = (modules \ {row}) \cup {new}
                     /\ Finish(r, [got EXCEPT !.effect =
                                      [kind |-> "update", before |-> row, after |-> new,
                                       at |-> CommitTime(req[r])]],
                               Response(200, "", TRUE, new))
    /\ UNCHANGED <<now, admins, programs, nextId, envChanges>>
    /\ UNCHANGED ui

RemovedMutant(mods, id) == mods
\* program_modules after .delete().eq("id", id), lines 858-861
Removed(mods, id) == mods \ {m \in mods : m.id = id}

\* lines 858-874: delete ... eq(id); no row matching is no error
Delete(r) ==
    /\ req[r].pc = "mutate"
    /\ req[r].body.action = "delete"
    /\ LET row == ModuleRow(modules, req[r].body.data.id)
           got == [req[r] EXCEPT !.calls = Append(@, "program_modules.delete")]
       IN  \/ /\ Finish(r, [got EXCEPT !.failed = "program_modules",
                                     !.log = Append(@, MutationLog("delete", StorageMsg))],
                        MutationFailure(StorageMsg))
              /\ UNCHANGED modules
           \/ /\ modules' = Removed(modules, req[r].body.data.id)
              /\ Finish(r, [got EXCEPT !.effect =
                               [kind |-> "delete", before |-> row, after |-> Null,
                                at |-> CommitTime(req[r])]],
                        Response(200, "", TRUE, Null))
    /\ UNCHANGED <<now, admins, programs, nextId, envChanges>>
    /\ UNCHANGED ui

(* ---------------------------- the environment ------------------------- *)
\* Date.now() moves on
Tick ==
    /\ now < MaxTime
    /\ now' = now + 1
    /\ UNCHANGED <<admins, programs, modules, nextId, envChanges, req>>
    /\ UNCHANGED ui

\* another actor switches an admin's is_active (table admins is not written here)
SetAdminActive ==
    /\ envChanges < MaxEnvChanges
    /\ \E a \in AdminIds :
          /\ admins[a].present
          /\ admins' = [admins EXCEPT ![a].is_active = ~admins[a].is_active]
    /\ envChanges' = envChanges + 1
    /\ UNCHANGED <<now, programs, modules, nextId, req>>
    /\ UNCHANGED ui

\* another actor moves a program to another division
SetProgramDivision ==
    /\ envChanges < MaxEnvChanges
    /\ \E p \in StoredPrograms, d \in Divisions :
          /\ programs[p].division_id # d
          /\ programs' = [programs EXCEPT ![p].division_id = d]
    /\ envChanges' = envChanges + 1
    /\ UNCHANGED <<now, admins, modules, nextId, req>>
    /\ UNCHANGED ui

\* The tokens of the concurrent specification: every unexpired issued token,
\* one forged token and no token at all.
LiveTokens ==
    {Issued(ObjText(a, d, MaxTime)) : a \in AdminIds, d \in Divisions}
    \cup {<<B64(ObjText("a1", "farmelife", MaxTime), 0),
            HexDigest(ObjText("a1", "farmelife", MaxTime), GuessedKey)>>, NoToken}

Next ==
    \/ \E r \in Slots : ReceiveOptions(r)
    \/ \E r \in Slots : ReceivePost(r, LiveTokens)
    \/ \E r \in Slots : Digest(r)
    \/ \E r \in Slots : AdminLookup(r)
    \/ \E r \in Slots : ReadBody(r)
    \/ \E r \in Slots : Fetch(r)
    \/ \E r \in Slots : Access(r)
    \/ \E r \in Slots : Insert(r)
    \/ \E r \in Slots : Update(r)
    \/ \E r \in Slots : Delete(r)
    \/ SetAdminActive
    \/ SetProgramDivision

\* Requests running concurrently at one instant of the clock.
Spec == Init /\ [][Next]_vars

\* the next step of a request that was received: the handler awaits one
\* storage call after the other, lines 720-874
Continue(r) ==
    AdminLookup(r) \/ Fetch(r) \/ Access(r) \/ Insert(r) \/ Update(r) \/ Delete(r)

\* The requests alone, the tables written by no other actor.
NextFair ==
    \/ \E r \in Slots : ReceiveOptions(r)
    \/ \E r \in Slots : ReceivePost(r, LiveTokens)
    \/ \E r \in Slots : Digest(r)
    \/ \E r \in Slots : ReadBody(r)
    \/ \E r \in Slots : Continue(r)

\* Every promise the handler awaits settles: the digest is computed, req.json()
\* resolves or rejects (the client sends its body or the connection ends), and
\* the storage backend answers every call. The continuation then runs.
SpecFair ==
    /\ Init /\ [][NextFair]_vars
    /\ \A r \in Slots :
          WF_vars(Digest(r)) /\ WF_vars(ReadBody(r)) /\ WF_vars(Continue(r))

\* One request at a time, any token of TokenPool, the clock running.
NextToken ==
    \/ ReceiveOptions(1)
    \/ ReceivePost(1, TokenPool)
    \/ Digest(1)
    \/ AdminLookup(1)
    \/ ReadBody(1)
    \/ Fetch(1)
    \/ Access(1)
    \/ Insert(1)
    \/ Update(1)
    \/ Delete(1)
    \/ Tick
    \/ SetAdminActive
    \/ SetProgramDivision

SpecToken == Init /\ [][NextToken]_vars


(* ---------------------------- ModuleManager --------------------------- *)

\* the ids rows of program_modules have in the modules prop
ListedIds == {"m1", "m2", "m3"}

\* the programId prop
programId == "p1"

\* getModule, line 481: the first row of the type in the modules prop
getModule(type) == listed[type]

\* a non-null value of useState<string | null>
Str(s) == [value |-> s]

\* dropping the i-th pending call
Without(s, i) == SubSeq(s, 1, i - 1) \o SubSeq(s, i + 1, Len(s))

\* lines 501-526 up to the await: the Enable switch of a type is clicked; a
\* disabled switch (line 630) takes no click
handleModuleToggle(type) ==
    /\ Len(inFlight) + refetches < MaxInFlight
    /\ isUpdating # Str(type)
    /\ isUpdating' = Str(type)
    /\ LET existingModule == getModule(type)
       IN  inFlight' = Append(inFlight,
              IF existingModule # Null
              THEN [key |-> type, action |-> "delete", data |-> [id |-> existingModule.id]]
              ELSE [key |-> type, action |-> "create",
                    data |-> [program_id |-> programId, module_type |-> type,
                              is_published |-> FALSE]])
    /\ UNCHANGED <<listed, refetches, now, admins, programs, modules, nextId, envChanges, req>>

\* lines 541-548 up to the await: the Publish switch of a listed module is
\* clicked (rendered only when the module exists, lines 606-618; disabled
\* when isUpdating is the id of the row now listed, line 619)
handlePublishToggle(type) ==
    /\ Len(inFlight) + refetches < MaxInFlight
    /\ getModule(type) # Null
    /\ LET moduleId == getModule(type).id
           currentStatus == getModule(type).is_published
       IN  /\ isUpdating # Str(moduleId)
           /\ isUpdating' = Str(moduleId)
           /\ inFlight' = Append(inFlight,
                  [key |-> moduleId, action |-> "update",
                   data |-> [id |-> moduleId, is_published |-> ~currentStatus]])
    /\ UNCHANGED <<listed, refetches, now, admins, programs, modules, nextId, envChanges, req>>

\* lines 526-538 and 555-567: a pending call resolves (toast, then
\* onModulesChange(), which is not awaited) or throws (toast), and finally
\* setIsUpdating(null); the modules prop is as it was
Settle(i) ==
    /\ i \in 1..Len(inFlight)
    /\ \E ok \in BOOLEAN :
          refetches' = IF ok THEN refetches + 1 ELSE refetches
    /\ inFlight' = Without(inFlight, i)
    /\ isUpdating' = Null
    /\ UNCHANGED <<listed, now, admins, programs, modules, nextId, envChanges, req>>

\* the lists the parent may pass as the modules prop: for each type no row
\* or a row with its id, the ids of different rows different
ModuleLists ==
    {l \in [MODULE_TYPES -> {Null} \cup [id : ListedIds, is_published : BOOLEAN]] :
        \A t, u \in MODULE_TYPES :
            (t # u /\ l[t] # Null /\ l[u] # Null) => l[t].id # l[u].id}

\* the parent answers a call of onModulesChange: it renders ModuleManager
\* with the list it has fetched, which is what the backend then holds
ModulesChanged ==
    /\ refetches > 0
    /\ refetches' = refetches - 1
    /\ listed' \in ModuleLists
    /\ UNCHANGED <<isUpdating, inFlight, now, admins, programs, modules, nextId,
                   envChanges, req>>

NextUI ==
    \/ \E type \in MODULE_TYPES : handleModuleToggle(type)
    \/ \E type \in MODULE_TYPES : handlePublishToggle(type)
    \/ \E i \in 1..MaxInFlight : Settle(i)
    \/ ModulesChanged

\* The ModuleManager of one page, its requests answered by the gateway.
SpecUI == Init /\ [][NextUI]_vars


(* ---------------------------- properties ------------------------------ *)
Done(r) == req[r].pc = "done"
\* the action of the body a request has read, "none" before it is read
ActionOf(q) == IF q.body = Null THEN "none" ELSE q.body.action
\* the request has issued the named storage call
Called(q, call) == \E i \in 1..Len(q.calls) : q.calls[i] = call
\* the program lookup of verifyProgramAccess returned a row of another
\* division than the admin record's
OtherDivision(q) ==
    /\ Called(q, "programs.select")
    /\ q.program # Null
    /\ q.program.division_id # q.admin.division_id
\* ... returned a row of the admin record's division
SameDivision(q) ==
    /\ Called(q, "programs.select")
    /\ q.program # Null
    /\ q.program.division_id = q.admin.division_id
Denied == Response(403, ErrDivision, FALSE, Null)

\* C1: an update or delete whose module lookup found the module and whose
\* program lookup returned a program of another division than the admin
\* record's is answered 403 and writes nothing to program_modules, whatever
\* the other requests and actors do meanwhile.
C1_CrossDivisionDenied ==
    \A r \in Slots :
        (ActionOf(req[r]) \in {"update", "delete"} /\ OtherDivision(req[r]))
            => /\ Done(r)
               /\ req[r].response.status = 403
               /\ req[r].effect = NoEffect
               /\ ~Called(req[r], "program_modules.update")
               /\ ~Called(req[r], "program_modules.delete")

C1_Witness ==
    \E r \in Slots :
        /\ Done(r)
        /\ ActionOf(req[r]) \in {"update", "delete"}
        /\ req[r].existingModule # Null
        /\ OtherDivision(req[r])
        /\ req[r].response.status = 403
        /\ ModuleRow(modules, req[r].body.data.id) # Null

\* C2: a create inserts a row only after its program lookup returned a
\* program of the admin record's division; when the lookup returns no row or
\* a program of another division the answer is the same 403 body and no row
\* is inserted.
C2_CreateOnlyInOwnDivision ==
    \A r \in Slots :
        ActionOf(req[r]) = "create" =>
            /\ (req[r].effect.kind = "insert" \/ Called(req[r], "program_modules.insert")
                   \/ req[r].pc = "mutate")
                  => SameDivision(req[r])
            /\ (Called(req[r], "programs.select") /\ ~SameDivision(req[r]))
                  => /\ Done(r)
                     /\ req[r].response = Denied
                     /\ req[r].effect = NoEffect

C2_Witness ==
    \E r1, r2 \in Slots :
        /\ Done(r1) /\ Done(r2)
        /\ ActionOf(req[r1]) = "create" /\ ActionOf(req[r2]) = "create"
        /\ Called(req[r1], "programs.select") /\ req[r1].failed = "none"
        /\ req[r1].program = Null
        /\ req[r1].body.data.program_id \notin DOMAIN programs
        /\ OtherDivision(req[r2])
        /\ req[r1].response = Denied /\ req[r2].response = Denied


\* a response and an effect with the backend-generated row id left out
NoId(row) == IF row = Null THEN Null ELSE [row EXCEPT !.id = 0]
ResponseNoId(resp) == [resp EXCEPT !.module = NoId(@)]
WriteNoId(effect) == [kind |-> effect.kind, after |-> NoId(effect.after)]

\* what a request saw: its body, the rows its lookups returned, the storage
\* call that failed
Observed(q) ==
    [body |-> q.body, admin |-> q.admin, existingModule |-> q.existingModule,
     program |-> q.program, failed |-> q.failed]

\* C3: two finished requests presenting correctly signed tokens for the same
\* admin_id and expiry, whatever division_id each token carries, that read
\* the same body and got the same rows from storage, have the same response
\* and wrote the same thing: the division of the token payload decides
\* nothing.
C3_TokenDivisionIgnored ==
    \A r1, r2 \in Slots :
        (/\ Done(r1) /\ Done(r2)
         /\ req[r1].adminPayload # Null /\ req[r2].adminPayload # Null
         /\ req[r1].token = Issued(ObjText(req[r1].adminPayload.admin_id,
                                           req[r1].adminPayload.division_id,
                                           req[r1].adminPayload.exp))
         /\ req[r2].token = Issued(ObjText(req[r2].adminPayload.admin_id,
                                           req[r2].adminPayload.division_id,
                                           req[r2].adminPayload.exp))
         /\ req[r1].adminPayload.admin_id = req[r2].adminPayload.admin_id
         /\ req[r1].adminPayload.exp = req[r2].adminPayload.exp
         /\ Observed(req[r1]) = Observed(req[r2]))
            => /\ ResponseNoId(req[r1].response) = ResponseNoId(req[r2].response)
               /\ WriteNoId(req[r1].effect) = WriteNoId(req[r2].effect)

C3_Witness ==
    \E r1, r2 \in Slots :
        /\ Done(r1) /\ Done(r2)
        /\ req[r1].adminPayload # Null /\ req[r2].adminPayload # Null
        /\ req[r1].adminPayload.admin_id = req[r2].adminPayload.admin_id
        /\ req[r1].adminPayload.division_id # req[r2].adminPayload.division_id
        /\ Observed(req[r1]) = Observed(req[r2])
        /\ SameDivision(req[r1])
        /\ req[r1].response.status = 200 /\ req[r2].response.status = 200
        /\ req[r1].effect.kind # "none" /\ req[r2].effect.kind # "none"

\* C4: when the admin lookup returns no row, or a row with is_active false,
\* the request (whatever its body) is answered 401 and neither reads the
\* body nor writes to program_modules.
C4_InactiveAdminRejected ==
    \A r \in Slots :
        (/\ Called(req[r], "admins.select")
         /\ req[r].failed # "admins"
         /\ (req[r].admin = Null \/ ~req[r].admin.is_active))
            => /\ Done(r)
               /\ req[r].response = Response(401, ErrAdmin, FALSE, Null)
               /\ req[r].effect = NoEffect
               /\ req[r].calls = <<"admins.select">>

C4_Witness ==
    \E r1, r2 \in Slots :
        /\ Done(r1) /\ Done(r2)
        /\ verifyAdminToken(req[r1].token, ServiceKey, req[r1].verifiedAt) # Null
        /\ verifyAdminToken(req[r2].token, ServiceKey, req[r2].verifiedAt) # Null
        /\ req[r1].failed = "none" /\ req[r2].failed = "none"
        /\ req[r1].admin # Null /\ ~req[r1].admin.is_active
        /\ Called(req[r2], "admins.select") /\ req[r2].admin = Null
        /\ req[r1].response.status = 401 /\ req[r2].response.status = 401


\* the request presented a token and verifyAdminToken has returned
Verified(q) == q.method = "POST" /\ ~TokenMissing(q.token) /\ q.pc # "digest"
InvalidToken == Response(401, ErrInvalidToken, FALSE, Null)
\* the request was refused before any storage call
RefusedAsInvalid(q) ==
    /\ q.pc = "done"
    /\ q.adminPayload = Null
    /\ q.response = InvalidToken
    /\ q.calls = <<>>
    /\ q.effect = NoEffect

\* the payload segment decodes to the JSON of a payload with this expiry
HasExpiry(token) ==
    /\ token[1].kind = "b64"
    /\ token[1].text.kind = "obj"

\* C5: every token whose payload carries exp <= Date.now() at verification,
\* exp = now included, is refused with 401 "Invalid or expired token",
\* whatever its signature.
C5_ExpiredRejected ==
    \A r \in Slots :
        (/\ Verified(req[r])
         /\ HasExpiry(req[r].token)
         /\ req[r].token[1].text.exp <= req[r].verifiedAt)
            => RefusedAsInvalid(req[r])

\* the digest segment is the one the issuer made for text t
IssuedDigest(token) ==
    /\ Len(token) >= 2
    /\ token[2].kind = "hex"
    /\ token[2].key = ServiceKey
    /\ token[2].text \in PayloadTexts

\* the expiry of the payload, where there is one, is still ahead
Unexpired(q) == HasExpiry(q.token) => q.token[1].text.exp > q.verifiedAt

\* C6 as stated: every token whose payload segment is not the segment that
\* was issued with its digest (any changed character of the segment) is
\* refused with 401 before any storage call.  (Taken for tokens whose
\* expiry is still ahead, so that expiry plays no part.)
C6_ChangedSegmentRejected ==
    \A r \in Slots :
        (/\ Verified(req[r])
         /\ IssuedDigest(req[r].token)
         /\ req[r].token[1] # B64(req[r].token[2].text, 0)
         /\ Unexpired(req[r]))
            => RefusedAsInvalid(req[r])

\* C6 amended: every token whose payload segment does not decode to the text
\* that was signed (it decodes to another text, or not at all) is refused
\* with 401 before any storage call.
C6_ChangedTextRejected ==
    \A r \in Slots :
        (/\ Verified(req[r])
         /\ IssuedDigest(req[r].token)
         /\ atob(req[r].token[1]) # req[r].token[2].text)
            => RefusedAsInvalid(req[r])

C6_Witness ==
    \E r \in Slots :
        /\ Verified(req[r])
        /\ IssuedDigest(req[r].token)
        /\ HasExpiry(req[r].token)
        /\ req[r].token[1].text # req[r].token[2].text
        /\ req[r].token[1].text.division_id # req[r].token[2].text.division_id
        /\ req[r].token[1].text.exp > req[r].verifiedAt
        /\ req[r].token[2].text.exp > req[r].verifiedAt
        /\ RefusedAsInvalid(req[r])

\* exactly two non-empty segments, the first of which decodes to the JSON of
\* a payload
WellFormed(token) ==
    /\ Len(token) = 2
    /\ ~Falsy(token[1]) /\ ~Falsy(token[2])
    /\ atob(token[1]) # Throw
    /\ JSONparse(atob(token[1])) \notin {Throw, Null}

\* C7: every token that is not exactly two non-empty segments with a
\* decodable payload (one segment, three or more, an empty one, a payload
\* that does not decode) is refused: verifyAdminToken returns null.  (Taken
\* for tokens whose expiry is still ahead, so that expiry plays no part.)
C7_OnlyTwoSegments ==
    \A r \in Slots :
        (Verified(req[r]) /\ ~WellFormed(req[r].token) /\ Unexpired(req[r]))
            => RefusedAsInvalid(req[r])


\* C8: a delete whose module lookup finds no row with the given id (the
\* module was deleted before, or never existed) is answered 404 "Module not
\* found", not 500, and makes no further storage call.
C8_DeleteOfMissingIs404 ==
    \A r \in Slots :
        (/\ ActionOf(req[r]) = "delete"
         /\ Called(req[r], "program_modules.select")
         /\ req[r].existingModule = Null)
            => /\ Done(r)
               /\ req[r].response = Response(404, ErrModuleNotFound, FALSE, Null)
               /\ req[r].effect = NoEffect
               /\ req[r].calls = <<"admins.select", "program_modules.select">>

\* one delete removed the row, a later delete of the same id got 404
C8_Witness ==
    \E r1, r2 \in Slots :
        /\ Done(r1) /\ Done(r2)
        /\ ActionOf(req[r1]) = "delete" /\ ActionOf(req[r2]) = "delete"
        /\ req[r1].response.status = 200
        /\ req[r1].effect.before # Null
        /\ req[r2].response.status = 404
        /\ req[r2].failed = "none"
        /\ req[r2].body.data.id = req[r1].body.data.id
        /\ ModuleRow(modules, req[r2].body.data.id) = Null

\* request r takes the step that ends it
Ends(r) == req[r].pc # "done" /\ req'[r].pc = "done"

\* C9: when an update with is_published true on the id a create returned is
\* answered 200, the row read back by the update and the row then stored
\* under that id are the row the create returned with is_published true:
\* same id, program_id and module_type.
C9_CreateUpdateRead ==
    [][\A r1, r2 \in Slots :
          (/\ Done(r1)
           /\ ActionOf(req[r1]) = "create"
           /\ req[r1].response.status = 200
           /\ Ends(r2)
           /\ ActionOf(req[r2]) = "update"
           /\ req[r2].body.data.id = req[r1].response.module.id
           /\ req[r2].body.data.is_published = "true"
           /\ req'[r2].response.status = 200)
              => LET made == req[r1].response.module
                     want == [made EXCEPT !.is_published = TRUE]
                 IN  /\ req'[r2].response.module = want
                     /\ ModuleRow(modules', made.id) = want]_vars

C9_Witness ==
    \E r1, r2 \in Slots :
        /\ Done(r1) /\ Done(r2)
        /\ ActionOf(req[r1]) = "create" /\ req[r1].response.status = 200
        /\ ActionOf(req[r2]) = "update" /\ req[r2].response.status = 200
        /\ req[r2].body.data.id = req[r1].response.module.id
        /\ req[r2].body.data.is_published = "true"
        /\ req[r1].response.module.module_type = "registration"
        /\ ModuleRow(modules, req[r1].response.module.id)
              = [req[r1].response.module EXCEPT !.is_published = TRUE]

\* C10: a create without is_published whose program lookup returns a program
\* of the admin record's division is not refused, and when its insert
\* succeeds it is answered 200 {success, module} with the given program_id
\* and module_type and is_published false, program_modules gaining exactly
\* that one row.
C10_CreateDefaultsUnpublished ==
    [][\A r \in Slots :
          (/\ Ends(r)
           /\ ActionOf(req'[r]) = "create"
           /\ req'[r].body.data # Null
           /\ req'[r].body.data.is_published = "undefined"
           /\ SameDivision(req'[r])
           /\ req'[r].failed = "none")
              => LET data == req'[r].body.data
                     module == req'[r].response.module
                 IN  /\ req'[r].response.status = 200
                     /\ req'[r].response.success
                     /\ module # Null
                     /\ module.program_id = data.program_id
                     /\ module.module_type = data.module_type
                     /\ module.is_published = FALSE
                     /\ module \notin modules
                     /\ \A m \in modules : m.id # module.id
                     /\ modules' = modules \cup {module}]_vars

C10_Witness ==
    \E r \in Slots :
        /\ Done(r)
        /\ ActionOf(req[r]) = "create"
        /\ req[r].body.data # Null
        /\ req[r].body.data.is_published = "undefined"
        /\ req[r].body.data.module_type = "registration"
        /\ SameDivision(req[r])
        /\ req[r].response.status = 200
        /\ req[r].response.module \in modules
        /\ ~req[r].response.module.is_published

\* the body req.json() yielded was no JSON object, or a create / update /
\* delete without its data object; the admin lookup had succeeded
MalformedBody(q) ==
    /\ q.pc = "done"
    /\ q.calls = <<"admins.select">>
    /\ q.admin # Null
    /\ q.admin.is_active
    /\ (q.body = Null \/ (q.body.action \in KnownActions /\ q.body.data = Null))

\* C11: a POST of an authenticated active admin whose body is malformed (no
\* JSON, or a recognised action without data) is answered 400 with an error
\* body, not 500.
C11_MalformedBodyIs400 ==
    \A r \in Slots :
        MalformedBody(req[r])
            => /\ req[r].response.status = 400
               /\ req[r].response.error # ""

\* the message the backend gave for it
FailureMessage(q) == IF q.failed = "single" THEN NoRowsMsg ELSE StorageMsg
Mutations == {"program_modules.insert", "program_modules.update", "program_modules.delete"}

\* C12: whichever storage call of a request fails, the answer is
\* 400 and its error field is the storage error message.
C12_AnyStorageFailureIs400 ==
    \A r \in Slots :
        (Done(r) /\ req[r].failed # "none")
            => /\ req[r].response.status = 400
               /\ req[r].response.error = FailureMessage(req[r])

\* the log lines that name the operation and its target id
ContextMsgs ==
    {"Creating module for program:", "Updating module:", "Deleting module:"}
HasContext(q) == \E i \in 1..Len(q.log) : q.log[i].msg \in ContextMsgs

\* C13: every POST that ends in a failure response (401, 403, 404, 400, 500)
\* has, by the time it is answered, written a log entry carrying the action
\* and the target id.
C13_FailuresLoggedWithContext ==
    \A r \in Slots :
        (Done(r) /\ req[r].method = "POST" /\ req[r].response.status # 200)
            => HasContext(req[r])

\* request r has committed its insert, update or delete
Committed(r) == Done(r) /\ req[r].effect # NoEffect

\* C14: a committed mutation rests on what the request read earlier: the admin
\* row it read was active and the program row it read was in that admin's
\* division; what the tables hold when the mutation runs is not consulted, so
\* a mutation can be committed for an admin who is by then inactive or for a
\* program by then in another division (C14_Witness).
C14_CommitRestsOnEarlierReads ==
    \A r \in Slots :
        Committed(r)
            => /\ req[r].response.status = 200
               /\ req[r].admin.is_active
               /\ req[r].program.division_id = req[r].admin.division_id

\* both races have happened: one mutation committed after the admin was
\* deactivated, or one committed after the program left the division
C14_Witness ==
    \E r \in Slots :
        /\ Committed(r)
        /\ req[r].response.status = 200
        /\ \/ ~req[r].effect.at.is_active
           \/ req[r].effect.at.program.division_id # req[r].admin.division_id

\* request r is an update that takes a step
UpdateStep(r) ==
    /\ req'[r] # req[r]
    /\ req'[r].body # Null
    /\ req'[r].body.action = "update"
    /\ req'[r].body.data # Null

\* C15: no step of an update request, whatever fields its payload carries,
\* adds or removes a row or changes any row but the one with the given id; of
\* that row id, program_id and module_type stay as they were, and is_published
\* too when the payload has no is_published.
C15_UpdateTouchesOnlyIsPublished ==
    [][\A r \in Slots :
          UpdateStep(r)
              => LET data == req'[r].body.data
                 IN  /\ {m.id : m \in modules'} = {m.id : m \in modules}
                     /\ \A m \in modules :
                           LET n == ModuleRow(modules', m.id)
                           IN  /\ n.program_id = m.program_id
                               /\ n.module_type = m.module_type
                               /\ (m.id # data.id => n = m)
                               /\ (data.is_published = "undefined" => n = m)]_vars

\* an update whose payload also carried module_type and program_id has
\* published a module of another type and program
C15_Witness ==
    \E r \in Slots :
        /\ Done(r)
        /\ req[r].response.status = 200
        /\ req[r].effect.kind = "update"
        /\ req[r].body.data \in UpdateDataExtra
        /\ req[r].effect.before.module_type # req[r].body.data.module_type
        /\ req[r].effect.before.program_id # req[r].body.data.program_id
        /\ ~req[r].effect.before.is_published
        /\ req[r].effect.after.is_published

\* request r is a create answered 200
CreateOk(q) ==
    /\ q.pc = "done"
    /\ q.body # Null
    /\ q.body.action = "create"
    /\ q.response.status = 200

SameKey(m, n) == m.program_id = n.program_id /\ m.module_type = n.module_type

\* C16: a successful create never looked for an existing module and adds one
\* row with a fresh id, also when a row with its program_id and module_type
\* is already there; two successful creates with the same program_id and
\* module_type therefore are answered with two distinct rows.
C16_CreateAddsRowRegardless ==
    [][\A r \in Slots :
          (Ends(r) /\ CreateOk(req'[r]))
              => LET row == req'[r].response.module
                 IN  /\ "program_modules.select" \notin
                            {req'[r].calls[i] : i \in 1..Len(req'[r].calls)}
                     /\ row \notin modules
                     /\ row.id \notin {m.id : m \in modules}
                     /\ modules' = modules \cup {row}
                     /\ Cardinality(modules') = Cardinality(modules) + 1
                     /\ \A q \in Slots \ {r} :
                           (CreateOk(req[q]) /\ SameKey(req[q].response.module, row))
                               => req[q].response.module.id # row.id]_vars

\* two creates with the same program_id and module_type were both answered
\* 200 and both rows are in program_modules
C16_Witness ==
    \E r1, r2 \in Slots :
        /\ r1 # r2
        /\ CreateOk(req[r1]) /\ CreateOk(req[r2])
        /\ SameKey(req[r1].response.module, req[r2].response.module)
        /\ req[r1].response.module # req[r2].response.module
        /\ {req[r1].response.module, req[r2].response.module} \subseteq modules
        /\ Cardinality({m \in modules : SameKey(m, req[r1].response.module)}) = 2

\* the storage calls of a request, in the order the handler makes them
Chain(action) ==
    IF action = "create"
    THEN <<"admins.select", "programs.select", "program_modules.insert">>
    ELSE IF action = "update"
    THEN <<"admins.select", "program_modules.select", "programs.select",
           "program_modules.update">>
    ELSE IF action = "delete"
    THEN <<"admins.select", "program_modules.select", "programs.select",
           "program_modules.delete">>
    ELSE <<"admins.select">>

IsPrefix(s, t) == Len(s) <= Len(t) /\ \A i \in 1..Len(s) : s[i] = t[i]

\* a received request makes the calls of its chain in order, each once; a
\* failed call is the last one and the request is answered
CallsInOrder ==
    \A r \in Slots :
        /\ IsPrefix(req[r].calls, Chain(ActionOf(req[r])))
        /\ req[r].failed # "none" => Done(r)
        /\ (req[r].response # Null) = Done(r)

\* an answered request is never touched again: one response, no further call
AnsweredOnce ==
    \A r \in Slots : Done(r) => req'[r] = req[r]

\* a step of the handler makes exactly one storage call, but for the two
\* that await the digest and the body, which make none
OneCallPerStep ==
    \A r \in Slots :
        (req[r].pc \notin {"idle", "done"} /\ req'[r] # req[r])
            => /\ Len(req'[r].calls) =
                      Len(req[r].calls) + (IF req[r].pc \in {"digest", "body"} THEN 0 ELSE 1)
               /\ (req'[r].failed # "none" => Done(r)')

\* C17: when every awaited digest, body read and storage call settles, every
\* received request is answered, exactly once; on the way it makes each storage
\* call of its chain at most once and in order, and a failing call is its
\* last: the request is answered in the same step.
C17_TerminatesWithoutRetry ==
    /\ []CallsInOrder
    /\ [][AnsweredOnce /\ OneCallPerStep]_vars
    /\ \A r \in Slots : (req[r].pc # "idle") ~> Done(r)

\* one request was answered after the whole chain, another after its
\* program lookup failed, without a mutation call
C17_Witness ==
    \E r1, r2 \in Slots :
        /\ Done(r1) /\ Len(req[r1].calls) = 4 /\ req[r1].failed = "none"
        /\ Done(r2) /\ req[r2].failed = "programs"
        /\ req[r2].calls[Len(req[r2].calls)] = "programs.select"

\* the request passed token verification, the admin check and the program
\* check, in this order, before its mutation call
PassedAllChecks(q) ==
    /\ q.method = "POST"
    /\ verifyAdminToken(q.token, ServiceKey, q.verifiedAt) # Null
    /\ q.adminPayload = verifyAdminToken(q.token, ServiceKey, q.verifiedAt)
    /\ q.admin # Null
    /\ q.admin.is_active
    /\ SameDivision(q)
    /\ Len(q.calls) >= 3
    /\ q.calls[1] = "admins.select"
    /\ q.calls[Len(q.calls) - 1] = "programs.select"
    /\ q.calls[Len(q.calls)] \in Mutations

\* C18: a step that ends a request with another status than 200 leaves
\* program_modules as it was, and so does every step of a request that does
\* not end it; program_modules changes only in the step that ends a request
\* with 200, and that request had passed token verification, the admin
\* lookup and the program-division check.
C18_OnlyAuthorized200Writes ==
    [][/\ \A r \in Slots :
             (req'[r] # req[r] /\ ~(Ends(r) /\ req'[r].response.status = 200))
                 => /\ modules' = modules
                    /\ req'[r].effect = NoEffect
       /\ modules' # modules
             => \E r \in Slots :
                   /\ Ends(r)
                   /\ req'[r].response.status = 200
                   /\ req'[r].effect # NoEffect
                   /\ PassedAllChecks(req'[r])]_vars

\* a delete answered 400 has left its module in place, and a request
\* answered 200 has written
C18_Witness ==
    \E r1, r2 \in Slots :
        /\ Done(r1)
        /\ req[r1].response.status = 400
        /\ req[r1].calls[Len(req[r1].calls)] = "program_modules.delete"
        /\ ModuleRow(modules, req[r1].body.data.id) # Null
        /\ Committed(r2)
        /\ req[r2].response.status = 200
        /\ req[r2].effect.before # req[r2].effect.after

\* a delete of module id that was answered 200
DeleteOk(q, id) ==
    /\ q.pc = "done"
    /\ q.body # Null
    /\ q.body.action = "delete"
    /\ q.body.data # Null
    /\ q.body.data.id = id
    /\ q.response.status = 200

\* C19 as stated: of the deletes of one module id at most one is answered 200.
C19_AtMostOneDelete200 ==
    \A id \in ModuleIds : \A r1, r2 \in Slots :
        (r1 # r2 /\ DeleteOk(req[r1], id)) => ~DeleteOk(req[r2], id)

\* C19 amended: of the deletes of one module id at most one removes the row;
\* every delete answered 200 had found the row in its own lookup, and once it
\* is answered the row is gone, removed by it or by another delete.
C19_AtMostOneDeleteRemoves ==
    \A id \in ModuleIds : \A r1 \in Slots :
        DeleteOk(req[r1], id)
            => /\ req[r1].existingModule # Null
               /\ ModuleRow(modules, id) = Null
               /\ \A r2 \in Slots \ {r1} :
                     (DeleteOk(req[r2], id) /\ req[r1].effect.before # Null)
                         => req[r2].effect.before = Null

\* two deletes of one id both answered 200; one removed the row, the other
\* removed nothing
C19_Witness ==
    \E id \in ModuleIds : \E r1, r2 \in Slots :
        /\ r1 # r2
        /\ DeleteOk(req[r1], id) /\ DeleteOk(req[r2], id)
        /\ req[r1].effect.before # Null
        /\ req[r2].effect.before = Null
        /\ req[r2].effect.kind = "delete"

\* C20: while a toggle is in flight isUpdating is the key of the switch that
\* started it, so that switch is disabled; and with nothing in flight
\* isUpdating is null.
C20_SwitchDisabledWhileInFlight ==
    /\ \A i \in 1..Len(inFlight) : isUpdating = Str(inFlight[i].key)
    /\ inFlight = <<>> => isUpdating = Null

====
